---- MODULE Spec2Model ----
(***************************************************************************)
(* A model of django-clickhouse-backend's schema introspection:            *)
(*   - Command.inspect_field_type / Command.consume_enum_choice            *)
(*     (management/commands/inspectdb.py): the decoder of ClickHouse type  *)
(*     strings, a generator that yields fragments of a Django field        *)
(*     definition and returns the unconsumed rest of the string;           *)
(*   - Command.handle_inspection: the loop over tables and columns;        *)
(*   - DatabaseIntrospection.get_constraints and .settings                 *)
(*     (backend/introspection.py).                                         *)
(*                                                                         *)
(* Text is a sequence of one-character strings, indexed from 0 through the *)
(* helpers below as Python indexes it.  What the generator yields is a     *)
(* sequence of string fragments; "".join of them is their concatenation.   *)
(* A Python exception is the field err of a result ("" when none).         *)
(***************************************************************************)
EXTENDS Integers, Sequences, FiniteSets, TLC

VARIABLES
    task,         \* which operation the run exercises
    column_type,  \* row.type_code handed to inspect_field_type
    param,        \* the param string handed to inspect_field_type
    shape,        \* how column_type was written: [kind, parts, rest]
    pc,           \* position of the operation under way
    result,       \* what the operation returned or raised
    tables,       \* handle_inspection: the tables to introspect, in order
    ti,           \* handle_inspection: index of the table under way
    ci,           \* handle_inspection: index of the column under way
    lines,        \* handle_inspection: the lines yielded so far
    ddl,          \* get_constraints: the clauses of SHOW CREATE TABLE
    cache,        \* settings: instance.__dict__["settings"], or Absent
    tpc,          \* settings: each thread's position in one access
    tval,         \* settings: the rows a thread's query fetched
    accesses,     \* settings: accesses each thread has started
    queries,      \* settings: catalog queries run so far
    writes,       \* settings: writes of the cache so far
    failed,       \* settings: catalog queries that raised
    overlapped,   \* settings: two accesses were under way at once
    returned      \* settings: what each thread's last access returned

vars == <<task, column_type, param, shape, pc, result, tables, ti, ci, lines,
          ddl, cache, tpc, tval, accesses, queries, writes, failed,
          overlapped, returned>>

-----------------------------------------------------------------------------
(* Python's str operations on a sequence of characters.                    *)

Digits == {"0", "1", "2", "3", "4", "5", "6", "7", "8", "9"}

Letters ==
    {"a","b","c","d","e","f","g","h","i","j","k","l","m","n","o","p","q","r",
     "s","t","u","v","w","x","y","z","A","B","C","D","E","F","G","H","I","J",
     "K","L","M","N","O","P","Q","R","S","T","U","V","W","X","Y","Z"}

isdigit(c) == c \in Digits

isalnum(c) == c \in Digits \cup Letters

\* s[i]: defined for 0 <= i < len(s), IndexError otherwise
InRange(s, i) == i >= 0 /\ i < Len(s)

At(s, i) == s[i + 1]

\* s[i:]
From(s, i) == SubSeq(s, i + 1, Len(s))

\* s[a:b]
Mid(s, a, b) == SubSeq(s, a + 1, IF b < Len(s) THEN b ELSE Len(s))

startswith(s, prefix) ==
    Len(s) >= Len(prefix) /\ SubSeq(s, 1, Len(prefix)) = prefix

RECURSIVE Concat(_)
\* "".join(parts)
Concat(parts) ==
    IF parts = <<>> THEN <<>> ELSE Head(parts) \o Concat(Tail(parts))

RECURSIVE JoinWith(_, _)
\* sep.join(parts)
JoinWith(sep, parts) ==
    IF parts = <<>> THEN <<>>
    ELSE IF Len(parts) = 1 THEN Head(parts)
    ELSE Head(parts) \o sep \o JoinWith(sep, Tail(parts))

RECURSIVE NonEmpty(_)
\* filter(None, params)
NonEmpty(params) ==
    IF params = <<>> THEN <<>>
    ELSE IF Head(params) = <<>> THEN NonEmpty(Tail(params))
    ELSE <<Head(params)>> \o NonEmpty(Tail(params))

merge_params(params) == JoinWith(<<", ">>, NonEmpty(params))

\* what a production hands back: the fragments it yielded and the rest of
\* the string it returned, or the exception it raised
Return(out, remain) == [err |-> "", out |-> out, remain |-> remain]

Raise(kind) == [err |-> kind, out |-> <<>>, remain |-> <<>>]

RECURSIVE ScanDigits(_, _)
\* while s[i].isdigit(): i += 1    (-1: the index ran past the end)
ScanDigits(s, i) ==
    IF ~InRange(s, i) THEN -1
    ELSE IF isdigit(At(s, i)) THEN ScanDigits(s, i + 1)
    ELSE i

RECURSIVE ScanToQuote(_, _)
\* while s[i] != "'": i += 1       (-1: the index ran past the end)
ScanToQuote(s, i) ==
    IF ~InRange(s, i) THEN -1
    ELSE IF At(s, i) # "'" THEN ScanToQuote(s, i + 1)
    ELSE i

RECURSIVE ScanAlnum(_, _)
\* while i < length and s[i].isalnum(): i += 1
ScanAlnum(s, i) ==
    IF i < Len(s) /\ isalnum(At(s, i)) THEN ScanAlnum(s, i + 1) ELSE i

-----------------------------------------------------------------------------
(* The keyword each production of inspect_field_type tests for.            *)

kwLowCardinality == <<"L","o","w","C","a","r","d","i","n","a","l","i","t","y">>
kwNullable == <<"N","u","l","l","a","b","l","e">>
kwFixedString == <<"F","i","x","e","d","S","t","r","i","n","g">>
kwDateTime64 == <<"D","a","t","e","T","i","m","e","6","4">>
kwDateTime == <<"D","a","t","e","T","i","m","e">>
kwDecimal == <<"D","e","c","i","m","a","l">>
kwEnum == <<"E","n","u","m">>
kwArray == <<"A","r","r","a","y">>
kwTuple == <<"T","u","p","l","e">>
kwMap == <<"M","a","p">>
kwObjectJson == <<"O","b","j","e","c","t","(","'","j","s","o","n","'",")">>

\* models.DateTime64Field.DEFAULT_PRECISION, as a character
DEFAULT_PRECISION == "6"

-----------------------------------------------------------------------------
(* consume_enum_choice: one 'label' = value of an Enum.                    *)

\* the printable ASCII characters, code points 32 to 126 in order (the
\* grave accent, 96, by its code point)
Printable ==
    <<" ","!","\"","#","$","%","&","'","(",")","*","+",",","-",".","/",
      "0","1","2","3","4","5","6","7","8","9",":",";","<","=",">","?","@",
      "A","B","C","D","E","F","G","H","I","J","K","L","M","N","O","P","Q",
      "R","S","T","U","V","W","X","Y","Z","[","\\","]","^","_","U+96",
      "a","b","c","d","e","f","g","h","i","j","k","l","m","n","o","p","q",
      "r","s","t","u","v","w","x","y","z","{","|","}","~">>

\* a character a bytes literal may hold as it stands
IsAscii(c) == \E k \in 1..Len(Printable) : Printable[k] = c

\* ord(c)
Ord(c) == 31 + (CHOOSE k \in 1..Len(Printable) : Printable[k] = c)

\* chr(n): the character, or a token naming the code point
Chr(n) ==
    IF n >= 32 /\ n <= 126 THEN Printable[n - 31] ELSE "U+" \o ToString(n)

HexDigits ==
    {<<"0", 0>>, <<"1", 1>>, <<"2", 2>>, <<"3", 3>>, <<"4", 4>>, <<"5", 5>>,
     <<"6", 6>>, <<"7", 7>>, <<"8", 8>>, <<"9", 9>>, <<"a", 10>>, <<"b", 11>>,
     <<"c", 12>>, <<"d", 13>>, <<"e", 14>>, <<"f", 15>>, <<"A", 10>>,
     <<"B", 11>>, <<"C", 12>>, <<"D", 13>>, <<"E", 14>>, <<"F", 15>>}

IsHex(c) == \E p \in HexDigits : p[1] = c

HexVal(c) == (CHOOSE p \in HexDigits : p[1] = c)[2]

\* the one-character escapes of a bytes literal (octal escapes left out)
SimpleEscapes ==
    {<<"\\", 92>>, <<"'", 39>>, <<"\"", 34>>, <<"n", 10>>, <<"t", 9>>,
     <<"r", 13>>, <<"a", 7>>, <<"b", 8>>, <<"f", 12>>, <<"v", 11>>}

RECURSIVE LiteralBytes(_, _)
\* the bytes of the body of b'...' from position i on: a sequence of
\* integers, or <<-1>> where Python rejects the literal with a SyntaxError
LiteralBytes(body, i) ==
    IF i >= Len(body) THEN <<>>
    ELSE LET c == At(body, i) IN
      IF c = "\\" /\ InRange(body, i + 1) THEN
        LET e == At(body, i + 1) IN
        IF e = "x" THEN
          IF InRange(body, i + 3) /\ IsHex(At(body, i + 2))
                                  /\ IsHex(At(body, i + 3))
          THEN LET rest == LiteralBytes(body, i + 4) IN
               IF rest = <<-1>> THEN rest
               ELSE <<16 * HexVal(At(body, i + 2)) + HexVal(At(body, i + 3))>>
                    \o rest
          ELSE <<-1>>
        ELSE LET rest == LiteralBytes(body, i + 2) IN
          IF rest = <<-1>> THEN rest
          ELSE IF \E p \in SimpleEscapes : p[1] = e
               THEN <<(CHOOSE p \in SimpleEscapes : p[1] = e)[2]>> \o rest
          ELSE IF IsAscii(e) THEN <<92, Ord(e)>> \o rest
          ELSE <<-1>>
      ELSE LET rest == LiteralBytes(body, i + 1) IN
        IF rest = <<-1>> THEN rest
        ELSE IF IsAscii(c) THEN <<Ord(c)>> \o rest
        ELSE <<-1>>

IsCont(b) == b >= 128 /\ b <= 191

RECURSIVE Utf8Decode(_)
\* bytes.decode('utf-8'): the code points, or <<-1>> for UnicodeDecodeError
Utf8Decode(bs) ==
    IF bs = <<>> THEN <<>>
    ELSE LET b == bs[1]
             n == IF b <= 127 THEN 1
                  ELSE IF b >= 194 /\ b <= 223 THEN 2
                  ELSE IF b >= 224 /\ b <= 239 THEN 3
                  ELSE IF b >= 240 /\ b <= 244 THEN 4
                  ELSE 0
         IN
      IF n = 0 \/ Len(bs) < n THEN <<-1>>
      ELSE IF \E k \in 2..n : ~IsCont(bs[k]) THEN <<-1>>
      ELSE IF n = 3 /\ b = 224 /\ bs[2] < 160 THEN <<-1>>
      ELSE IF n = 3 /\ b = 237 /\ bs[2] > 159 THEN <<-1>>
      ELSE IF n = 4 /\ b = 240 /\ bs[2] < 144 THEN <<-1>>
      ELSE IF n = 4 /\ b = 244 /\ bs[2] > 143 THEN <<-1>>
      ELSE LET cp == IF n = 1 THEN b
                     ELSE IF n = 2 THEN (b - 192) * 64 + (bs[2] - 128)
                     ELSE IF n = 3 THEN (b - 224) * 4096 + (bs[2] - 128) * 64
                                        + (bs[3] - 128)
                     ELSE (b - 240) * 262144 + (bs[2] - 128) * 4096
                          + (bs[3] - 128) * 64 + (bs[4] - 128)
               rest == Utf8Decode(SubSeq(bs, n + 1, Len(bs)))
           IN IF rest = <<-1>> THEN rest ELSE <<cp>> \o rest

LowerHex ==
    <<"0","1","2","3","4","5","6","7","8","9","a","b","c","d","e","f">>

\* how repr writes one code point inside the quotes
ReprChar(n, quote) ==
    IF n = 92 THEN <<"\\", "\\">>
    ELSE IF Chr(n) = quote THEN <<"\\", quote>>
    ELSE IF n = 9 THEN <<"\\", "t">>
    ELSE IF n = 10 THEN <<"\\", "n">>
    ELSE IF n = 13 THEN <<"\\", "r">>
    ELSE IF n < 32 \/ n = 127
         THEN <<"\\", "x", LowerHex[(n \div 16) + 1], LowerHex[(n % 16) + 1]>>
    ELSE <<Chr(n)>>

RECURSIVE ReprBody(_, _)
ReprBody(cps, quote) ==
    IF cps = <<>> THEN <<>>
    ELSE ReprChar(cps[1], quote) \o ReprBody(Tail(cps), quote)

\* repr() of a str: double quotes when the text holds ' and no ", single
\* quotes otherwise (code points from 128 on are taken as printable)
Repr(cps) ==
    LET quote == IF (\E k \in 1..Len(cps) : cps[k] = 39)
                    /\ ~(\E k \in 1..Len(cps) : cps[k] = 34)
                 THEN "\"" ELSE "'"
    IN <<quote>> \o ReprBody(cps, quote) \o <<quote>>

RECURSIVE ScanLabel(_, _, _)
\* the while True loop of consume_enum_choice: the index of the closing
\* quote and has_bytes, or i = -1 where an index ran past the end
ScanLabel(s, i, has_bytes) ==
    IF ~InRange(s, i) THEN [i |-> -1, has_bytes |-> has_bytes]
    ELSE IF At(s, i) = "\\" THEN
        IF ~InRange(s, i + 1) THEN [i |-> -1, has_bytes |-> has_bytes]
        ELSE ScanLabel(s, i + 2, has_bytes \/ At(s, i + 1) = "x")
    ELSE IF At(s, i) = "'" THEN [i |-> i, has_bytes |-> has_bytes]
    ELSE ScanLabel(s, i + 1, has_bytes)

\* try: eval(f"b{name}.decode('utf-8')") except UnicodeDecodeError: ...
\* without the except clause
DecodeNameNoExcept(name) ==
    LET bs == IF Len(name) >= 2 /\ name[1] = "'"
              THEN LiteralBytes(Mid(name, 1, Len(name) - 1), 0)
              ELSE <<-1>>
        cps == Utf8Decode(bs)
    IN IF bs = <<-1>> THEN [err |-> "SyntaxError", name |-> <<>>]
       ELSE IF cps = <<-1>> THEN [err |-> "UnicodeDecodeError", name |-> <<>>]
       ELSE [err |-> "", name |-> Repr(cps)]

\* the has_bytes branch: the decoded text's repr, or b + the literal when
\* the bytes are not UTF-8; any other exception of eval propagates
DecodeName(name) ==
    LET bs == IF Len(name) >= 2 /\ name[1] = "'"
              THEN LiteralBytes(Mid(name, 1, Len(name) - 1), 0)
              ELSE <<-1>>
        cps == Utf8Decode(bs)
    IN IF bs = <<-1>> THEN [err |-> "SyntaxError", name |-> <<>>]
       ELSE IF cps = <<-1>> THEN [err |-> "", name |-> <<"b">> \o name]
       ELSE [err |-> "", name |-> Repr(cps)]

NoChoice(kind) == [err |-> kind, name |-> <<>>, value |-> <<>>, remain |-> <<>>]

consume_enum_choice(s) ==
    LET scan == ScanLabel(s, 1, FALSE) IN
    IF scan.i = -1 THEN NoChoice("IndexError")
    ELSE
      LET i == scan.i + 1
          raw == Mid(s, 0, i)
          dec == IF scan.has_bytes THEN DecodeName(raw)
                 ELSE [err |-> "", name |-> raw]
          j == i + 3
          k == ScanDigits(s, j)
      IN IF dec.err # "" THEN NoChoice(dec.err)
         ELSE IF k = -1 THEN NoChoice("IndexError")
         ELSE [err |-> "", name |-> dec.name, value |-> Mid(s, j, k),
               remain |-> From(s, k)]

-----------------------------------------------------------------------------
(* inspect_field_type: one production per keyword, tried in this order.    *)

RECURSIVE inspect_field_type(_, _)

\* yield from self.inspect_field_type(...): the nested production
Inner(ct, p) == inspect_field_type(ct, p)

\* LowCardinality(X): the inner production's fragments, with the flag added
\* to param; the closing parenthesis is dropped from what it returns
LowCardinalityField(ct, p) ==
    LET r == Inner(From(ct, 15),
                 merge_params(<<p, <<"low_cardinality=True">> >>))
    IN IF r.err # "" THEN r ELSE Return(r.out, From(r.remain, 1))

\* Nullable(X)
NullableField(ct, p) ==
    LET r == Inner(From(ct, 9),
                 merge_params(<<p, <<"null=True">>, <<"blank=True">> >>))
    IN IF r.err # "" THEN r ELSE Return(r.out, From(r.remain, 1))

\* FixedString(20)
FixedStringField(ct, p) ==
    LET i == ScanDigits(ct, 12) IN
    IF i = -1 THEN Raise("IndexError")
    ELSE Return(<<"models.FixedStringField(">>
                \o merge_params(<<p, <<"max_bytes=">> \o Mid(ct, 12, i)>>)
                \o <<")">>,
                From(ct, i + 1))

\* DateTime64(6, 'UTC') or DateTime64(9)
DateTime64Field(ct, p) ==
    IF ~InRange(ct, 11) THEN Raise("IndexError")
    ELSE IF ~isdigit(At(ct, 11)) THEN Raise("ValueError")
    ELSE
      LET q == IF At(ct, 11) # DEFAULT_PRECISION
               THEN merge_params(<<p, <<"precision=", At(ct, 11)>> >>)
               ELSE p
          out == <<"models.DateTime64Field(">> \o q \o <<")">>
      IN IF ~InRange(ct, 12) THEN Raise("IndexError")
         ELSE IF At(ct, 12) = "," THEN
           LET i == ScanToQuote(ct, 15) IN
           IF i = -1 THEN Raise("IndexError") ELSE Return(out, From(ct, i + 2))
         ELSE Return(out, From(ct, 13))

\* DateTime('UTC') or DateTime.  The return sits inside the while loop: when
\* column_type[10] is not a quote the loop body runs once, i becomes 11 and
\* column_type[13:] is returned; when it is a quote the loop body never runs
\* and column_type[8:] is returned.
DateTimeField(ct, p) ==
    LET out == <<"models.DateTimeField(">> \o p \o <<")">> IN
    IF Len(ct) > 8 /\ At(ct, 8) = "(" THEN
      IF ~InRange(ct, 10) THEN Raise("IndexError")
      ELSE IF At(ct, 10) # "'" THEN Return(out, From(ct, 13))
      ELSE Return(out, From(ct, 8))
    ELSE Return(out, From(ct, 8))

\* Decimal(9, 3)
DecimalField(ct, p) ==
    LET i == ScanDigits(ct, 8) IN
    IF i = -1 THEN Raise("IndexError")
    ELSE
      LET j == i + 2
          k == ScanDigits(ct, j)
      IN IF k = -1 THEN Raise("IndexError")
         ELSE Return(<<"models.DecimalField(">>
                     \o merge_params(<<p, <<"max_digits=">> \o Mid(ct, 8, i),
                                       <<"decimal_places=">> \o Mid(ct, j, k)>>)
                     \o <<")">>,
                     From(ct, k + 1))

\* f"({value}, {name})"
ChoiceText(c) == <<"(">> \o c.value \o <<", ">> \o c.name \o <<")">>

RECURSIVE EnumChoices(_, _)
\* while remain[0] != ")": consume_enum_choice(remain[2:])
EnumChoices(choices, remain) ==
    IF ~InRange(remain, 0)
    THEN [err |-> "IndexError", choices |-> <<>>, remain |-> <<>>]
    ELSE IF At(remain, 0) = ")"
    THEN [err |-> "", choices |-> choices, remain |-> remain]
    ELSE LET c == consume_enum_choice(From(remain, 2)) IN
         IF c.err # ""
         THEN [err |-> c.err, choices |-> <<>>, remain |-> <<>>]
         ELSE EnumChoices(Append(choices, ChoiceText(c)), c.remain)

\* Enum8('a' = 1, 'b' = 2)
EnumField(ct, p) ==
    LET i == ScanDigits(ct, 4) IN
    IF i = -1 THEN Raise("IndexError")
    ELSE
      LET first == consume_enum_choice(From(ct, i + 1)) IN
      IF first.err # "" THEN Raise(first.err)
      ELSE
        LET all == EnumChoices(<<ChoiceText(first)>>, first.remain) IN
        IF all.err # "" THEN Raise(all.err)
        ELSE Return(<<"models.">> \o Mid(ct, 0, i) \o <<"Field(">>
                    \o merge_params(<<p, <<"choices=[">>
                           \o JoinWith(<<", ">>, all.choices) \o <<"]">> >>)
                    \o <<")">>,
                    From(all.remain, 1))

\* Array(Tuple(String, Enum8('a' = 1, 'b' = 2)))
ArrayField(ct, p) ==
    LET r == Inner(From(ct, 6), <<>>) IN
    IF r.err # "" THEN r
    ELSE Return(<<"models.ArrayField(">> \o r.out
                \o (IF p # <<>> THEN <<", ">> \o p ELSE <<>>) \o <<")">>,
                From(r.remain, 1))

RECURSIVE TupleElements(_, _)
\* while remain[0] == ",": yield ", "; inspect_field_type(remain[2:])
TupleElements(out, remain) ==
    IF ~InRange(remain, 0) THEN Raise("IndexError")
    ELSE IF At(remain, 0) = "," THEN
      LET r == Inner(From(remain, 2), <<>>) IN
      IF r.err # "" THEN r
      ELSE TupleElements(out \o <<", ">> \o r.out, r.remain)
    ELSE Return(out, remain)

\* Tuple(String, Enum8('a' = 1, 'b' = 2))
TupleField(ct, p) ==
    LET first == Inner(From(ct, 6), <<>>) IN
    IF first.err # "" THEN first
    ELSE
      LET all == TupleElements(<<"models.TupleField([">> \o first.out,
                               first.remain)
      IN IF all.err # "" THEN all
         ELSE Return(all.out \o <<"]">>
                     \o (IF p # <<>> THEN <<", ">> \o p ELSE <<>>) \o <<")">>,
                     From(all.remain, 1))

\* Map(String, Int8)
MapField(ct, p) ==
    LET k == Inner(From(ct, 4), <<>>) IN
    IF k.err # "" THEN k
    ELSE
      LET v == Inner(From(k.remain, 2), <<>>) IN
      IF v.err # "" THEN v
      ELSE Return(<<"models.MapField(">> \o k.out \o <<", ">> \o v.out
                  \o (IF p # <<>> THEN <<", ">> \o p ELSE <<>>) \o <<")">>,
                  From(v.remain, 1))

\* Object('json')
JSONField(ct, p) ==
    Return(<<"models.JSONField(">> \o p \o <<")">>, From(ct, 14))

\* the fallback, had it skipped a parenthesised argument list after the name
FallbackFieldSkipsArguments(ct, p) ==
    LET i == ScanAlnum(ct, 0)
        close == CHOOSE k \in i..Len(ct) :
                    /\ k = Len(ct) \/ At(ct, k) = ")"
                    /\ \A m \in i..(k - 1) : At(ct, m) # ")"
    IN Return(<<"models.">> \o Mid(ct, 0, i) \o <<"Field(">> \o p \o <<")">>,
              IF InRange(ct, i) /\ At(ct, i) = "(" THEN From(ct, close + 1)
              ELSE From(ct, i))

\* any other type: the leading run of alphanumeric characters names the field
FallbackField(ct, p) ==
    LET i == ScanAlnum(ct, 0) IN
    Return(<<"models.">> \o Mid(ct, 0, i) \o <<"Field(">> \o p \o <<")">>,
           From(ct, i))

inspect_field_type(ct, p) ==
    IF startswith(ct, kwLowCardinality) THEN LowCardinalityField(ct, p)
    ELSE IF startswith(ct, kwNullable) THEN NullableField(ct, p)
    ELSE IF startswith(ct, kwFixedString) THEN FixedStringField(ct, p)
    ELSE IF startswith(ct, kwDateTime64) THEN DateTime64Field(ct, p)
    ELSE IF startswith(ct, kwDateTime) THEN DateTimeField(ct, p)
    ELSE IF startswith(ct, kwDecimal) THEN DecimalField(ct, p)
    ELSE IF startswith(ct, kwEnum) THEN EnumField(ct, p)
    ELSE IF startswith(ct, kwArray) THEN ArrayField(ct, p)
    ELSE IF startswith(ct, kwTuple) THEN TupleField(ct, p)
    ELSE IF startswith(ct, kwMap) THEN MapField(ct, p)
    ELSE IF startswith(ct, kwObjectJson) THEN JSONField(ct, p)
    ELSE FallbackField(ct, p)

\* field_define, had it refused a type string with characters left over
field_define_strict(ct, p) ==
    LET r == inspect_field_type(ct, p) IN
    IF r.err # "" THEN [err |-> r.err, text |-> <<>>, dropped |-> <<>>]
    ELSE IF r.remain # <<>>
    THEN [err |-> "ParseError", text |-> <<>>, dropped |-> <<>>]
    ELSE [err |-> "", text |-> r.out, dropped |-> r.remain]

\* lines 97-99: field_define = "".join(self.inspect_field_type(...)).  join
\* takes the fragments and drops the string the generator returns, kept
\* here as dropped; an exception raised by a production passes through
field_define(ct, p) ==
    LET r == inspect_field_type(ct, p) IN
    IF r.err # "" THEN [err |-> r.err, text |-> <<>>, dropped |-> <<>>]
    ELSE [err |-> "", text |-> r.out, dropped |-> r.remain]

-----------------------------------------------------------------------------
(* The type strings the decoder is run on, written as ClickHouse writes    *)
(* them (the forms are those of the comments beside each production).      *)

MaxElems == 2       \* elements of a Tuple
MaxVariants == 2    \* variants of an Enum
MaxLabelLen == 2    \* characters and escapes of an Enum label

SeqsUpTo(S, n) == UNION {[1..k -> S] : k \in 1..n}

tInt8 == <<"I","n","t","8">>
tString == <<"S","t","r","i","n","g">>
nAggregateFunction ==
    <<"A","g","g","r","e","g","a","t","e","F","u","n","c","t","i","o","n">>
nNested == <<"N","e","s","t","e","d">>
aSumInt8 == <<"(","s","u","m",","," ","I","n","t","8",")">>
aColumn == <<"(","a"," ","I","n","t","8",")">>
tzUTC == <<"U","T","C">>
tzShanghai == <<"A","s","i","a","/","S","h","a","n","g","h","a","i">>
tzOneChar == <<"Z">>
paramDbColumn == <<"db_column='x'">>

\* KEYWORD(inner)
Call(kw, inner) == kw \o <<"(">> \o inner \o <<")">>

\* DateTime('tz')
DateTimeText(tz) == Call(kwDateTime, <<"'">> \o tz \o <<"'">>)

\* DateTime64(3, 'tz')
DateTime64Text(digit, tz) ==
    Call(kwDateTime64, <<digit, ",", " ", "'">> \o tz \o <<"'">>)

\* Tuple(X, Y, ...)
TupleText(elems) == Call(kwTuple, JoinWith(<<",", " ">>, elems))

\* Map(K, V)
MapText(k, v) == Call(kwMap, k \o <<",", " ">> \o v)

RECURSIVE VariantTexts(_)
\* parts holds label, value, label, value, ...
VariantTexts(parts) ==
    IF Len(parts) < 2 THEN <<>>
    ELSE <<parts[1] \o <<" ", "=", " ">> \o parts[2]>>
         \o VariantTexts(SubSeq(parts, 3, Len(parts)))

\* Enum8('a' = 1, 'b' = 2)
EnumText(typ, parts) == Call(typ, JoinWith(<<",", " ">>, VariantTexts(parts)))

\* what may follow a type inside an enclosing type, or nothing
Rests == {<<>>, <<")">>, <<",", " ">> \o tInt8 \o <<")">>}

Params == {<<>>, paramDbColumn}

\* Enum labels without byte escapes: plain, holding , and ), holding \'
PlainLabels ==
    {<<"'", "a", "'">>, <<"'", "a", ",", " ", "b", ")", "'">>,
     <<"'", "i", "t", "\\", "'", "s", "'">>}

EnumValues == {<<"1">>, <<"1", "0">>, <<"-", "1">>}

EnumTypes == {kwEnum \o <<"8">>, kwEnum \o <<"1", "6">>}

Variants == {<<l, v>> : l \in PlainLabels, v \in EnumValues}

TimeZones == {tzUTC, tzShanghai, tzOneChar}

\* the element types Tuples and Maps are built from
ElemTypes ==
    {tInt8, tString, DateTimeText(tzUTC), DateTime64Text("3", tzUTC),
     Call(kwFixedString, <<"2", "0">>),
     Call(kwDecimal, <<"9", ",", " ", "3">>),
     EnumText(kwEnum \o <<"8">>,
              << <<"'", "a", ",", " ", "b", ")", "'">>, <<"1">>,
                 <<"'", "c", "'">>, <<"2">> >>),
     Call(kwNullable, tInt8), Call(kwArray, tString),
     TupleText(<<tInt8, tString>>), MapText(tString, tInt8),
     nAggregateFunction \o aSumInt8, kwObjectJson}

Shape(kind, parts, rest) == [kind |-> kind, parts |-> parts, rest |-> rest]

Input(text, shape_) == [text |-> text, shape |-> shape_]

TupleInputs ==
    {Input(TupleText(es) \o r, Shape("tuple", es, r)) :
        es \in SeqsUpTo(ElemTypes, MaxElems), r \in Rests}

MapInputs ==
    {Input(MapText(k, v) \o r, Shape("map", <<k, v>>, r)) :
        k \in {tString, DateTimeText(tzUTC)}, v \in ElemTypes, r \in Rests}

EnumInputs ==
    {Input(EnumText(ty, Concat(vs)) \o r, Shape("enum", <<ty>> \o Concat(vs), r)) :
        ty \in EnumTypes, vs \in SeqsUpTo(Variants, MaxVariants), r \in Rests}

DateTimeInputs ==
    {Input(DateTimeText(tz) \o r, Shape("datetime", <<tz>>, r)) :
        tz \in TimeZones, r \in Rests}
    \cup {Input(kwDateTime \o r, Shape("datetime", <<>>, r)) : r \in Rests}

FallbackNames == {tInt8, tString, nAggregateFunction, nNested}

FallbackArgs == {<<>>, aSumInt8, aColumn}

FallbackInputs ==
    {Input(n \o a \o r, Shape("fallback", <<n, a>>, r)) :
        n \in FallbackNames, a \in FallbackArgs, r \in Rests}

\* a wrapped or plain element type
PlainInputs ==
    {Input(Call(kw, e) \o r, Shape("plain", <<e>>, r)) :
        kw \in {kwNullable, kwLowCardinality, kwArray}, e \in ElemTypes,
        r \in Rests}
    \cup {Input(e \o r, Shape("plain", <<e>>, r)) : e \in ElemTypes, r \in Rests}

\* a type whose last closing parenthesis is missing
UnclosedInputs ==
    {Input(SubSeq(e, 1, Len(e) - 1), Shape("unclosed", <<e>>, <<>>)) :
        e \in {x \in ElemTypes \cup {Call(kwLowCardinality, tString)} :
                  x[Len(x)] = ")"}}

FieldInputs ==
    TupleInputs \cup MapInputs \cup EnumInputs \cup DateTimeInputs
    \cup FallbackInputs \cup PlainInputs \cup UnclosedInputs

\* the pieces of an Enum label: characters, escaped characters and byte
\* escapes, each with the bytes it stands for
LabelItems ==
    {[text |-> <<"a">>, bytes |-> <<97>>, escape |-> FALSE],
     [text |-> <<",">>, bytes |-> <<44>>, escape |-> FALSE],
     [text |-> <<"x">>, bytes |-> <<120>>, escape |-> FALSE],
     [text |-> <<"\\", "'">>, bytes |-> <<39>>, escape |-> FALSE],
     [text |-> <<"\\", "\\">>, bytes |-> <<92>>, escape |-> FALSE],
     [text |-> <<"\\", "x", "4", "1">>, bytes |-> <<65>>, escape |-> TRUE],
     [text |-> <<"\\", "x", "c", "3">>, bytes |-> <<195>>, escape |-> TRUE],
     [text |-> <<"\\", "x", "a", "9">>, bytes |-> <<169>>, escape |-> TRUE],
     [text |-> <<"\\", "x", "f", "f">>, bytes |-> <<255>>, escape |-> TRUE]}

RECURSIVE ItemsText(_)
ItemsText(items) ==
    IF items = <<>> THEN <<>> ELSE Head(items).text \o ItemsText(Tail(items))

RECURSIVE ItemsBytes(_)
ItemsBytes(items) ==
    IF items = <<>> THEN <<>> ELSE Head(items).bytes \o ItemsBytes(Tail(items))

\* 'label'
LabelText(items) == <<"'">> \o ItemsText(items) \o <<"'">>

\* 'label' = value, then what follows it in the Enum
ChoiceInputs ==
    {Input(LabelText(items) \o <<" ", "=", " ">> \o v \o r,
           Shape("choice", items, r)) :
        items \in SeqsUpTo(LabelItems, MaxLabelLen) \cup {<<>>},
        v \in {<<"1">>, <<"1", "0">>},
        r \in {<<")">>, <<",", " ", "'", "b", "'", " ", "=", " ", "2", ")">>, <<>>}}

-----------------------------------------------------------------------------
(* State shared by the specifications: each leaves the others' variables   *)
(* at these values.                                                        *)

Absent == [set |-> FALSE, value |-> {}]

Threads == {"T1", "T2"}

NoResult == [err |-> ""]

IdleParse ==
    /\ column_type = <<>>
    /\ param = <<>>
    /\ shape = Shape("none", <<>>, <<>>)

IdleInspect ==
    /\ tables = <<>>
    /\ ti = 0
    /\ ci = 0
    /\ lines = <<>>

IdleConstraints == ddl = <<>>

IdleSettings ==
    /\ cache = Absent
    /\ tpc = [t \in Threads |-> "idle"]
    /\ tval = [t \in Threads |-> {}]
    /\ accesses = [t \in Threads |-> 0]
    /\ queries = 0
    /\ writes = 0
    /\ failed = 0
    /\ overlapped = FALSE
    /\ returned = [t \in Threads |-> {}]

parseVars == <<column_type, param, shape>>
inspectVars == <<tables, ti, ci, lines>>
settingsVars ==
    <<cache, tpc, tval, accesses, queries, writes, failed, overlapped,
      returned>>

-----------------------------------------------------------------------------
(* The decoder on one column's type string.                                *)

ParseInit ==
    /\ \/ /\ task = "field"
          /\ \E inp \in FieldInputs :
                /\ column_type = inp.text
                /\ shape = inp.shape
          /\ param \in Params
       \/ /\ task = "choice"
          /\ \E inp \in ChoiceInputs :
                /\ column_type = inp.text
                /\ shape = inp.shape
          /\ param = <<>>
    /\ pc = "ready"
    /\ result = NoResult
    /\ IdleInspect /\ IdleConstraints /\ IdleSettings

\* handle_inspection's use of the decoder on row.type_code
InspectField ==
    /\ task = "field"
    /\ pc = "ready"
    /\ result' = field_define(column_type, param)
    /\ pc' = "done"
    /\ UNCHANGED <<task, parseVars, inspectVars, ddl, settingsVars>>

\* the Enum production's use of consume_enum_choice on 'label' = value...
ConsumeChoice ==
    /\ task = "choice"
    /\ pc = "ready"
    /\ result' = consume_enum_choice(column_type)
    /\ pc' = "done"
    /\ UNCHANGED <<task, parseVars, inspectVars, ddl, settingsVars>>

ParseNext == InspectField \/ ConsumeChoice

SpecParse == ParseInit /\ [][ParseNext]_vars

-----------------------------------------------------------------------------
(* Properties of the decoder.                                              *)

Parsed(kind) == task = "field" /\ pc = "done" /\ shape.kind = kind

\* f"models.{column_type[:i]}Field({param})"
FieldText(name, p) == <<"models.">> \o name \o <<"Field(">> \o p \o <<")">>

\* the param of an enclosing Array, Tuple or Map, written after its elements
TrailingParam(p) == IF p # <<>> THEN <<", ">> \o p ELSE <<>>

\* each element string decoded on its own
OwnDecodings(parts) ==
    [k \in 1..Len(parts) |-> inspect_field_type(parts[k], <<>>).out]

TupleOfOwnDecodings(parts, p) ==
    <<"models.TupleField([">> \o JoinWith(<<", ">>, OwnDecodings(parts))
    \o <<"]">> \o TrailingParam(p) \o <<")">>

MapOfOwnDecodings(parts, p) ==
    <<"models.MapField(">> \o JoinWith(<<", ">>, OwnDecodings(parts))
    \o TrailingParam(p) \o <<")">>

RECURSIVE DeclaredChoices(_)
\* (value, label) of each declared variant, in declaration order
DeclaredChoices(parts) ==
    IF Len(parts) < 2 THEN <<>>
    ELSE << <<"(">> \o parts[2] \o <<", ">> \o parts[1] \o <<")">> >>
         \o DeclaredChoices(SubSeq(parts, 3, Len(parts)))

EnumOfDeclaredChoices(parts, p) ==
    <<"models.">> \o parts[1] \o <<"Field(">>
    \o merge_params(<<p, <<"choices=[">>
           \o JoinWith(<<", ">>, DeclaredChoices(Tail(parts))) \o <<"]">> >>)
    \o <<")">>

C5_EnumVariantsInOrder ==
    Parsed("enum")
        => /\ result.err = ""
           /\ result.text = EnumOfDeclaredChoices(shape.parts, param)
           /\ result.dropped = shape.rest

\* C6 (as claimed): a Tuple of n >= 1 element strings decodes to exactly n
\* elements in source order, each the decoding of its own element string,
\* and ends at its own closing parenthesis: nothing inside an element is
\* taken for a separator or for the Tuple's end.
C6_TupleElementsDecodedOwn ==
    Parsed("tuple")
        => /\ result.err = ""
           /\ result.text = TupleOfOwnDecodings(shape.parts, param)
           /\ result.dropped = shape.rest

\* C9 (as claimed): DateTime('tz') is consumed exactly through its closing
\* parenthesis and bare DateTime through its 8 characters, the rest handed
\* back unchanged; so the sibling of a DateTime('tz') inside a Tuple or a
\* Map is decoded as an element of its own.
C9_DateTimeConsumesTimezone ==
    /\ Parsed("datetime")
          => /\ result.err = ""
             /\ result.text = <<"models.DateTimeField(">> \o param \o <<")">>
             /\ result.dropped = shape.rest
    /\ (Parsed("tuple") /\ Len(shape.parts) = 2
            /\ shape.parts[1] = DateTimeText(tzUTC))
          => /\ result.err = ""
             /\ result.text = TupleOfOwnDecodings(shape.parts, param)
    /\ (Parsed("map") /\ shape.parts[1] = DateTimeText(tzUTC))
          => /\ result.err = ""
             /\ result.text = MapOfOwnDecodings(shape.parts, param)

\* C10 (as claimed): a type name that matches no keyword is consumed
\* together with the whole parenthesised argument list that follows it, if
\* any: what is handed back starts right after the name, or right after the
\* matching closing parenthesis.
C10_FallbackConsumesArguments ==
    Parsed("fallback")
        => /\ result.err = ""
           /\ result.dropped = shape.rest

\* C10 (amended): a type name that matches no keyword yields the field
\* named after it and consumes exactly the name, whether or not a
\* parenthesised argument list follows: what is handed back starts at the
\* opening parenthesis when there is one.
C10_FallbackConsumesNameOnly ==
    Parsed("fallback")
        => /\ result.err = ""
           /\ result.text = FieldText(shape.parts[1], param)
           /\ result.dropped = shape.parts[2] \o shape.rest

C10_Witness ==
    /\ Parsed("fallback")
    /\ shape.parts = <<nAggregateFunction, aSumInt8>>
    /\ result.text = FieldText(nAggregateFunction, param)
    /\ result.dropped = aSumInt8 \o shape.rest
    /\ shape.rest # <<>>

-----------------------------------------------------------------------------
(* handle_inspection: the loop over the tables and their columns.  A table *)
(* is [name, wanted, constraints, description, columns]: wanted is what    *)
(* table_name_filter answers, constraints and description are how          *)
(* get_constraints and get_table_description end for it ("ok", or the      *)
(* exception raised), columns are the rows get_table_description returns.  *)

MaxTables == 2      \* tables of one run
MaxCols == 2        \* columns of one table

LowerCase ==
    <<"a","b","c","d","e","f","g","h","i","j","k","l","m","n","o","p","q",
      "r","s","t","u","v","w","x","y","z">>

UpperCase ==
    <<"A","B","C","D","E","F","G","H","I","J","K","L","M","N","O","P","Q",
      "R","S","T","U","V","W","X","Y","Z">>

IsLetter(c) == c \in Letters

upper(c) ==
    IF \E k \in 1..26 : LowerCase[k] = c
    THEN UpperCase[CHOOSE k \in 1..26 : LowerCase[k] = c] ELSE c

lower(c) ==
    IF \E k \in 1..26 : UpperCase[k] = c
    THEN LowerCase[CHOOSE k \in 1..26 : UpperCase[k] = c] ELSE c

\* str.title(): a letter after a non-letter is upper-cased, any other
\* letter lower-cased
title(s) ==
    [k \in 1..Len(s) |->
        IF k = 1 \/ ~IsLetter(s[k - 1]) THEN upper(s[k]) ELSE lower(s[k])]

RECURSIVE OnlyAlnum(_)
OnlyAlnum(s) ==
    IF s = <<>> THEN <<>>
    ELSE (IF isalnum(Head(s)) THEN <<Head(s)>> ELSE <<>>) \o OnlyAlnum(Tail(s))

\* re.sub(r"[^a-zA-Z0-9]", "", table_name.title())
table2model(table_name) == OnlyAlnum(title(table_name))

TableNames ==
    << <<"o","r","d","e","r","s">>, <<"p","a","g","e","_","v","i","e","w","s">>,
       <<"t","3">>, <<"t","4">> >>

ColumnNames == << <<"i","d">>, <<"k","i","n","d">>, <<"a","t">>, <<"c","4">> >>

\* a type the decoder takes, and one ClickHouse writes that it raises on
ColumnTypes == {Call(kwNullable, tInt8),
                EnumText(kwEnum \o <<"8">>, << <<"'", "a", "'">>, <<"-", "1">> >>)}

ColumnLists ==
    {<<>>} \cup
    UNION {{[c \in 1..n |-> [name |-> ColumnNames[c], type |-> ty[c]]] :
               ty \in [1..n -> ColumnTypes]} : n \in 1..MaxCols}

\* how the catalog answers for one table
Kind(wanted, cons, desc, cols) ==
    [wanted |-> wanted, constraints |-> cons, description |-> desc,
     columns |-> cols]

\* the answers a table may get; columns are listed only where
\* get_table_description is reached and returns
TableKinds ==
    {Kind(FALSE, "ok", "ok", <<>>), Kind(TRUE, "Exception", "ok", <<>>)}
    \cup {Kind(TRUE, c, "Exception", <<>>) : c \in {"ok", "NotImplementedError"}}
    \cup {Kind(TRUE, c, "ok", cols) :
             c \in {"ok", "NotImplementedError"}, cols \in ColumnLists}

Table(name, kind) ==
    [name |-> name, wanted |-> kind.wanted, constraints |-> kind.constraints,
     description |-> kind.description, columns |-> kind.columns]

Line(kind, table, column, text) ==
    [kind |-> kind, table |-> table, column |-> column, text |-> text]

\* lines 22-34 (the grave accents of line 27 by their code point)
Preamble ==
    << Line("comment", <<>>, <<>>,
            <<"# This is an auto-generated Django model module.">>),
       Line("comment", <<>>, <<>>,
            <<"# You'll have to do the following manually to clean this up:">>),
       Line("comment", <<>>, <<>>, <<"#   * Rearrange models' order">>),
       Line("comment", <<>>, <<>>,
            <<"#   * Make sure each model has one field with primary_key=True">>),
       Line("comment", <<>>, <<>>,
            <<"#   * Remove ", "U+96", "managed = False", "U+96",
              " lines if you wish to allow ",
              "Django to create, modify, and delete the table">>),
       Line("comment", <<>>, <<>>,
            <<"# Feel free to rename the models, but don't rename db_table values or ",
              "field names.">>),
       Line("import", <<>>, <<>>, <<"from clickhouse_backend import models">>) >>

InspectInit ==
    /\ task = "inspect"
    /\ \E n \in 1..MaxTables :
          \E kinds \in [1..n -> TableKinds] :
             tables = [k \in 1..n |-> Table(TableNames[k], kinds[k])]
    /\ ti = 0
    /\ ci = 0
    /\ lines = <<>>
    /\ pc = "start"
    /\ result = NoResult
    /\ IdleParse /\ IdleConstraints /\ IdleSettings

\* lines 21-41: the preamble is yielded and the table list is settled
Begin ==
    /\ task = "inspect"
    /\ pc = "start"
    /\ lines' = Preamble
    /\ ti' = 1
    /\ pc' = "table"
    /\ UNCHANGED <<task, parseVars, result, tables, ci, ddl, settingsVars>>

AtTable == task = "inspect" /\ pc = "table" /\ ti \in 1..Len(tables)

\* lines 44-46: table_name_filter turns the table down
SkipTable ==
    /\ AtTable
    /\ ~tables[ti].wanted
    /\ ti' = ti + 1
    /\ UNCHANGED <<task, parseVars, result, tables, ci, lines, pc, ddl,
                   settingsVars>>

\* a catalog call of the table raises what the except of line 57 catches
Fails(tb) == tb.constraints = "Exception" \/ tb.description = "Exception"

\* lines 47-60 with continue replaced by break
TableFailsAndStops ==
    /\ AtTable
    /\ tables[ti].wanted
    /\ Fails(tables[ti])
    /\ lines' = lines \o
          << Line("unable", tables[ti].name, <<>>,
                  <<"# Unable to inspect table '">> \o tables[ti].name \o <<"'">>),
             Line("error", tables[ti].name, <<>>,
                  <<"# The error was: ", "Exception">>) >>
    /\ pc' = "done"
    /\ UNCHANGED <<task, parseVars, result, tables, ti, ci, ddl, settingsVars>>

\* lines 47-60: get_constraints raises something other than
\* NotImplementedError, or get_table_description raises: two comment lines
\* are yielded and the loop continues with the next table
TableFails ==
    /\ AtTable
    /\ tables[ti].wanted
    /\ Fails(tables[ti])
    /\ lines' = lines \o
          << Line("unable", tables[ti].name, <<>>,
                  <<"# Unable to inspect table '">> \o tables[ti].name \o <<"'">>),
             Line("error", tables[ti].name, <<>>,
                  <<"# The error was: ", "Exception">>) >>
    /\ ti' = ti + 1
    /\ UNCHANGED <<task, parseVars, result, tables, ci, pc, ddl, settingsVars>>

\* lines 47-68: both catalog calls return (a NotImplementedError of
\* get_constraints leaves constraints empty); the class line is yielded
TableOpens ==
    /\ AtTable
    /\ tables[ti].wanted
    /\ ~Fails(tables[ti])
    /\ lines' = lines \o
          << Line("blank", tables[ti].name, <<>>, <<>>),
             Line("blank", tables[ti].name, <<>>, <<>>),
             Line("class", tables[ti].name, <<>>,
                  <<"class ">> \o table2model(tables[ti].name)
                  \o <<"(models.ClickhouseModel):">>) >>
    /\ ci' = 1
    /\ pc' = "columns"
    /\ UNCHANGED <<task, parseVars, result, tables, ti, ddl, settingsVars>>

AtColumn ==
    /\ task = "inspect" /\ pc = "columns"
    /\ ci \in 1..Len(tables[ti].columns)

\* lines 70-103 with the decoder's exception caught and noted at the column
InspectColumnCatches ==
    /\ AtColumn
    /\ \E row \in {tables[ti].columns[ci]} :
       \E fd \in {field_define(row.type, <<>>)} :
          lines' = Append(lines,
              IF fd.err # ""
              THEN Line("field", tables[ti].name, row.name,
                        <<"    ">> \o row.name \o <<" = None  # ", fd.err>>)
              ELSE Line("field", tables[ti].name, row.name,
                        <<"    ">> \o row.name \o <<" = ">> \o fd.text))
    /\ ci' = ci + 1
    /\ UNCHANGED <<task, parseVars, result, tables, ti, pc, ddl, settingsVars>>

\* lines 70-103: one row of the table.  No try encloses line 97: what the
\* decoder raises leaves handle_inspection, and the run ends there
InspectColumn ==
    /\ AtColumn
    /\ \E row \in {tables[ti].columns[ci]} :
       \E fd \in {field_define(row.type, <<>>)} :
          IF fd.err # ""
          THEN /\ pc' = "raised"
               /\ result' = [err |-> fd.err]
               /\ UNCHANGED <<lines, ci>>
          ELSE /\ lines' = Append(lines,
                      Line("field", tables[ti].name, row.name,
                           <<"    ">> \o row.name \o <<" = ">> \o fd.text))
               /\ ci' = ci + 1
               /\ UNCHANGED <<pc, result>>
    /\ UNCHANGED <<task, parseVars, tables, ti, ddl, settingsVars>>

\* lines 104-118: the rows are done; get_meta's lines are yielded
TableMeta ==
    /\ task = "inspect" /\ pc = "columns"
    /\ ci = Len(tables[ti].columns) + 1
    /\ lines' = Append(lines,
          Line("meta", tables[ti].name, <<>>,
               <<"    class Meta: db_table = '">> \o tables[ti].name \o <<"'">>))
    /\ ti' = ti + 1
    /\ pc' = "table"
    /\ UNCHANGED <<task, parseVars, result, tables, ci, ddl, settingsVars>>

\* line 43: the for loop has no table left
Finish ==
    /\ task = "inspect" /\ pc = "table"
    /\ ti = Len(tables) + 1
    /\ pc' = "done"
    /\ UNCHANGED <<task, parseVars, result, tables, ti, ci, lines, ddl,
                   settingsVars>>

InspectNext ==
    \/ Begin \/ SkipTable \/ TableFails \/ TableOpens \/ InspectColumn
    \/ TableMeta \/ Finish

SpecInspect == InspectInit /\ [][InspectNext]_vars

-----------------------------------------------------------------------------
(* Properties of handle_inspection.                                        *)

\* the lines of one kind yielded so far for one table, in order
LinesFor(kind, name) ==
    SelectSeq(lines, LAMBDA l : l.kind = kind /\ l.table = name)

\* get_constraints or get_table_description of the table raises anything
CatalogRaises(tb) == tb.constraints # "ok" \/ tb.description # "ok"

\* the run is over and no exception left it: the generator is exhausted
Ended == task = "inspect" /\ pc = "done"

\* the rows of table k the column loop is through with
ColumnsDone(k) ==
    IF k < ti THEN Len(tables[k].columns)
    ELSE IF k = ti /\ pc \in {"columns", "raised"} THEN ci - 1
    ELSE 0

\* the line a row yields when its type decodes
FieldLine(tb, c) ==
    Line("field", tb.name, tb.columns[c].name,
         <<"    ">> \o tb.columns[c].name \o <<" = ">>
         \o field_define(tb.columns[c].type, <<>>).text)

\* C2 (as claimed): when the run has returned, every table to introspect
\* whose catalog calls both return has its model, every table with a
\* catalog call that raises has exactly one recorded failure (name, error
\* text) and no model, and the tables after a failing one were gone through.
C2_EveryTableSettled ==
    Ended =>
        \A k \in 1..Len(tables) :
            tables[k].wanted =>
                IF CatalogRaises(tables[k])
                THEN /\ Len(LinesFor("unable", tables[k].name)) = 1
                     /\ Len(LinesFor("error", tables[k].name)) = 1
                     /\ LinesFor("class", tables[k].name) = <<>>
                ELSE /\ Len(LinesFor("class", tables[k].name)) = 1
                     /\ LinesFor("unable", tables[k].name) = <<>>

\* C2 (amended): a table is failing when get_constraints raises something
\* other than NotImplementedError or get_table_description raises.  Every
\* table the loop has reached has, when failing, exactly one recorded
\* failure (name, error text) and no model, and otherwise (a
\* NotImplementedError of get_constraints included) its model; the loop
\* goes on after a failing table, and a run that returns has reached every
\* table.  Only an exception of a column's decoder ends the run earlier,
\* inside a table that is not failing, and the tables after it get nothing.
C2_ReachedTablesSettled ==
    task = "inspect" =>
        /\ \A k \in 1..Len(tables) :
              LET tb == tables[k]
                  reached == k < ti \/ (k = ti /\ pc \in {"columns", "raised"})
              IN IF reached /\ tb.wanted
                 THEN IF Fails(tb)
                      THEN /\ Len(LinesFor("unable", tb.name)) = 1
                           /\ Len(LinesFor("error", tb.name)) = 1
                           /\ LinesFor("class", tb.name) = <<>>
                           /\ LinesFor("meta", tb.name) = <<>>
                      ELSE /\ Len(LinesFor("class", tb.name)) = 1
                           /\ LinesFor("unable", tb.name) = <<>>
                           /\ LinesFor("error", tb.name) = <<>>
                           /\ Len(LinesFor("meta", tb.name))
                                 = (IF k < ti THEN 1 ELSE 0)
                 ELSE \A l \in 1..Len(lines) : lines[l].table # tb.name
        /\ pc = "done" => ti = Len(tables) + 1
        /\ pc = "raised" => /\ ti \in 1..Len(tables)
                            /\ tables[ti].wanted
                            /\ ~Fails(tables[ti])
                            /\ ci \in 1..Len(tables[ti].columns)

C2_Witness ==
    /\ task = "inspect" /\ pc = "done"
    /\ Len(tables) = 2
    /\ tables[1].wanted /\ tables[1].description = "Exception"
    /\ tables[2].wanted /\ tables[2].constraints = "NotImplementedError"
    /\ Len(LinesFor("unable", tables[1].name)) = 1
    /\ LinesFor("class", tables[1].name) = <<>>
    /\ Len(LinesFor("class", tables[2].name)) = 1
    /\ Len(LinesFor("meta", tables[2].name)) = 1

\* C3 (as claimed): a column whose type fails to decode never ends the run:
\* the run returns, and every column of every table that got a model has
\* its line, the failing ones included.
C3_ColumnFailureIsCaught ==
    /\ pc # "raised"
    /\ (task = "inspect" /\ pc = "done") =>
          \A k \in 1..Len(tables) :
              Len(LinesFor("field", tables[k].name)) = Len(tables[k].columns)

\* C3 (amended): the exception of a column's decoder is not caught: it
\* leaves handle_inspection at that column.  The lines yielded before it
\* stand (one per earlier column of the table, each with its decoded type);
\* the failing column, the table's later columns, its Meta and every later
\* table get no line.  A run that returns has decoded every column of
\* every table that got a model.
C3_ColumnFailureEndsRun ==
    task = "inspect" =>
        /\ \A k \in 1..Len(tables) :
              /\ LinesFor("field", tables[k].name)
                    = [c \in 1..ColumnsDone(k) |-> FieldLine(tables[k], c)]
              /\ \A c \in 1..ColumnsDone(k) :
                    field_define(tables[k].columns[c].type, <<>>).err = ""
        /\ pc = "raised" =>
              /\ ti \in 1..Len(tables)
              /\ ci \in 1..Len(tables[ti].columns)
              /\ result.err # ""
              /\ result.err
                    = field_define(tables[ti].columns[ci].type, <<>>).err
              /\ LinesFor("meta", tables[ti].name) = <<>>
              /\ \A k \in (ti + 1)..Len(tables) :
                    \A l \in 1..Len(lines) : lines[l].table # tables[k].name
        /\ pc = "done" =>
              \A k \in 1..Len(tables) : ColumnsDone(k) = Len(tables[k].columns)

C3_Witness ==
    /\ task = "inspect" /\ pc = "raised"
    /\ result.err = "IndexError"
    /\ Len(tables) = 2 /\ ti = 1 /\ ci = 2
    /\ Len(tables[1].columns) = 2
    /\ Len(LinesFor("field", tables[1].name)) = 1
    /\ tables[2].wanted /\ ~Fails(tables[2])
    /\ LinesFor("class", tables[2].name) = <<>>

-----------------------------------------------------------------------------
(* get_constraints: the CHECK and INDEX clauses of SHOW CREATE TABLE.  The  *)
(* text is the sequence of its lines; "." of neither pattern crosses a line *)
(* end.  A line is [keyword, backtick, name, rest]: rest is what follows    *)
(* the name and its blank, up to the optional comma at the line's end.      *)

MaxClauses == 2     \* lines of one CREATE TABLE text

Clause(keyword, backtick, name, rest) ==
    [keyword |-> keyword, backtick |-> backtick, name |-> name, rest |-> rest]

\* CONSTRAINT name CHECK expression
CheckClause(backtick, name, expression) ==
    Clause("CONSTRAINT", backtick, name, <<"CHECK ", expression>>)

\* INDEX name expression TYPE type(args) GRANULARITY n
IndexClause(backtick, name, expression, type_, args, n) ==
    Clause("INDEX", backtick, name,
           <<expression, " TYPE ", type_, "(", args, ")", " GRANULARITY ", n>>)

\* INDEX name expression TYPE type GRANULARITY n, as written for a type
\* without arguments
BareIndexClause(backtick, name, expression, type_, n) ==
    Clause("INDEX", backtick, name,
           <<expression, " TYPE ", type_, " GRANULARITY ", n>>)

\* a column of the table
ColumnClause(name, type_) == Clause("", TRUE, name, <<type_>>)

\* line 8-10: CONSTRAINT, the name (in grave accents or not), a blank,
\* CHECK and at least one character, the line's end
constraint_pattern(cl) ==
    /\ cl.keyword = "CONSTRAINT"
    /\ Len(cl.rest) = 2
    /\ cl.rest[1] = "CHECK "
    /\ cl.rest[2] # ""

\* line 11-13: INDEX, the name, a blank, an expression, TYPE, an identifier,
\* arguments in parentheses (at least one character), GRANULARITY, digits
index_pattern(cl) ==
    /\ cl.keyword = "INDEX"
    /\ Len(cl.rest) = 8
    /\ cl.rest[1] # ""
    /\ cl.rest[2] = " TYPE "
    /\ cl.rest[4] = "("
    /\ cl.rest[5] # ""
    /\ cl.rest[6] = ")"
    /\ cl.rest[7] = " GRANULARITY "

\* pattern.findall(table_sql): the matches in the order of the text
constraint_findall(table_sql) == SelectSeq(table_sql, constraint_pattern)

index_findall(table_sql) == SelectSeq(table_sql, index_pattern)

\* constraints[name] = value
SetItem(constraints, name, value) ==
    [k \in DOMAIN constraints \cup {name} |->
        IF k = name THEN value ELSE constraints[k]]

\* lines 89-98
CheckEntry(cl) ==
    [columns |-> <<>>, primary_key |-> FALSE, unique |-> FALSE,
     foreign_key |-> "None", check |-> TRUE, index |-> FALSE,
     definition |-> cl.rest, options |-> "None"]

\* lines 101-112
IndexEntry(cl) ==
    [columns |-> <<>>, orders |-> <<>>, primary_key |-> FALSE,
     unique |-> FALSE, foreign_key |-> "None", check |-> FALSE,
     index |-> TRUE, type |-> cl.rest[3], definition |-> cl.rest,
     options |-> "None"]

RECURSIVE StoreChecks(_, _)
\* lines 88-98: the loop over the CHECK matches
StoreChecks(constraints, matches) ==
    IF matches = <<>> THEN constraints
    ELSE StoreChecks(SetItem(constraints, Head(matches).name,
                             CheckEntry(Head(matches))),
                     Tail(matches))

RECURSIVE StoreIndexes(_, _)
\* lines 100-112: the loop over the INDEX matches
StoreIndexes(constraints, matches) ==
    IF matches = <<>> THEN constraints
    ELSE StoreIndexes(SetItem(constraints, Head(matches).name,
                              IndexEntry(Head(matches))),
                      Tail(matches))

RECURSIVE StoreInTextOrder(_, _)
StoreInTextOrder(constraints, table_sql) ==
    IF table_sql = <<>> THEN constraints
    ELSE LET cl == Head(table_sql)
             stored == IF constraint_pattern(cl)
                       THEN SetItem(constraints, cl.name, CheckEntry(cl))
                       ELSE IF index_pattern(cl)
                       THEN SetItem(constraints, cl.name, IndexEntry(cl))
                       ELSE constraints
         IN StoreInTextOrder(stored, Tail(table_sql))

\* get_constraints as one scan that stores every clause where it stands
get_constraints_text_order(table_sql) == StoreInTextOrder(<<>>, table_sql)

\* lines 83-113: the CHECK matches are stored first, the INDEX matches after
get_constraints(table_sql) ==
    StoreIndexes(StoreChecks(<<>>, constraint_findall(table_sql)),
                 index_findall(table_sql))

ConstraintNames == {"a", "my check"}

ClausePool ==
    {CheckClause(b, n, e) :
        b \in BOOLEAN, n \in ConstraintNames, e \in {"x > 0", "y < 9"}}
    \cup {IndexClause(b, n, e, "set", "100", "4") :
        b \in BOOLEAN, n \in ConstraintNames, e \in {"x", "y"}}
    \cup {BareIndexClause(FALSE, n, "x", "minmax", "4") : n \in ConstraintNames}
    \cup {ColumnClause("x", "Int8")}

DDLTexts == SeqsUpTo(ClausePool, MaxClauses) \cup {<<>>}

ConstraintsInit ==
    /\ task = "constraints"
    /\ ddl \in DDLTexts
    /\ pc = "ready"
    /\ result = NoResult
    /\ IdleParse /\ IdleInspect /\ IdleSettings

\* one call of get_constraints on the text the cursor returns
GetConstraints ==
    /\ task = "constraints"
    /\ pc = "ready"
    /\ result' = [err |-> "", constraints |-> get_constraints(ddl)]
    /\ pc' = "done"
    /\ UNCHANGED <<task, parseVars, inspectVars, ddl, settingsVars>>

ConstraintsNext == GetConstraints

SpecConstraints == ConstraintsInit /\ [][ConstraintsNext]_vars

\* the lines of the text that a pattern matches with this name
MatchesOf(name) ==
    {i \in 1..Len(ddl) :
        /\ ddl[i].name = name
        /\ constraint_pattern(ddl[i]) \/ index_pattern(ddl[i])}

IndexMatchesOf(name) == {i \in MatchesOf(name) : index_pattern(ddl[i])}

Last(S) == CHOOSE i \in S : \A j \in S : j <= i

\* the entry of the mapping says what line i of the text does
EntryIs(name, i) ==
    /\ name \in DOMAIN result.constraints
    /\ result.constraints[name].definition = ddl[i].rest
    /\ result.constraints[name].check = (ddl[i].keyword = "CONSTRAINT")
    /\ result.constraints[name].index = (ddl[i].keyword = "INDEX")

\* C4 (as claimed): a name that two clauses of the text define (CHECK and
\* CHECK, INDEX and INDEX, or one of each in either order) has one entry in
\* the mapping, the definition of the clause that stands later in the text.
C4_LaterClauseWins ==
    (task = "constraints" /\ pc = "done") =>
        \A name \in ConstraintNames :
            Cardinality(MatchesOf(name)) >= 2
                => EntryIs(name, Last(MatchesOf(name)))

\* C4 (amended): a name that two clauses define has one entry in the
\* mapping: of two CHECK clauses, or of two INDEX clauses, the one later in
\* the text; of a CHECK and an INDEX clause always the INDEX clause,
\* wherever it stands, because the INDEX matches are stored after all the
\* CHECK matches.  The mapping has the names of the matched clauses only.
C4_LaterOfAKindIndexOverCheck ==
    (task = "constraints" /\ pc = "done") =>
        /\ \A name \in ConstraintNames :
              MatchesOf(name) # {}
                 => IF IndexMatchesOf(name) # {}
                    THEN EntryIs(name, Last(IndexMatchesOf(name)))
                    ELSE EntryIs(name, Last(MatchesOf(name)))
        /\ DOMAIN result.constraints
              = {name \in ConstraintNames : MatchesOf(name) # {}}

C4_Witness ==
    /\ task = "constraints" /\ pc = "done"
    /\ Len(ddl) = 2
    /\ ddl[1] = IndexClause(FALSE, "a", "x", "set", "100", "4")
    /\ ddl[2] = CheckClause(TRUE, "a", "x > 0")
    /\ DOMAIN result.constraints = {"a"}
    /\ result.constraints["a"].index
    /\ result.constraints["a"].definition = ddl[1].rest

-----------------------------------------------------------------------------
(* settings: a cached_property of the introspection object.  Reading the    *)
(* attribute finds the value in the instance's __dict__ when it is there;   *)
(* otherwise cached_property.__get__ calls the function (lines 120-123)     *)
(* and then stores and returns what it returned.  Nothing guards the steps  *)
(* of two threads against each other.                                       *)

MaxAccesses == 2    \* accesses of settings by one thread

\* what SELECT name from system.settings may answer
ServerSets == {{"max_threads"}, {"max_threads", "mutations_sync"}}

Busy(t) == tpc[t] \in {"query", "store"}

\* the attribute is in instance.__dict__ with the descriptor recomputing
\* all the same (a plain property)
HitRecomputes(t) ==
    /\ task = "settings"
    /\ tpc[t] = "idle"
    /\ accesses[t] < MaxAccesses
    /\ cache.set
    /\ accesses' = [accesses EXCEPT ![t] = @ + 1]
    /\ tpc' = [tpc EXCEPT ![t] = "query"]
    /\ overlapped' = (overlapped \/ \E u \in Threads \ {t} : Busy(u))
    /\ UNCHANGED <<task, pc, result, parseVars, inspectVars, ddl, cache, tval,
                   queries, writes, failed, returned>>

\* line 115: the attribute is in instance.__dict__; it is returned as it is
Hit(t) ==
    /\ task = "settings"
    /\ tpc[t] = "idle"
    /\ accesses[t] < MaxAccesses
    /\ cache.set
    /\ accesses' = [accesses EXCEPT ![t] = @ + 1]
    /\ returned' = [returned EXCEPT ![t] = cache.value]
    /\ UNCHANGED <<task, pc, result, parseVars, inspectVars, ddl, cache, tpc,
                   tval, queries, writes, failed, overlapped>>

\* line 115: the attribute is not in instance.__dict__; __get__ calls the
\* function
Miss(t) ==
    /\ task = "settings"
    /\ tpc[t] = "idle"
    /\ accesses[t] < MaxAccesses
    /\ ~cache.set
    /\ accesses' = [accesses EXCEPT ![t] = @ + 1]
    /\ tpc' = [tpc EXCEPT ![t] = "query"]
    /\ overlapped' = (overlapped \/ \E u \in Threads \ {t} : Busy(u))
    /\ UNCHANGED <<task, pc, result, parseVars, inspectVars, ddl, cache, tval,
                   queries, writes, failed, returned>>

\* lines 120-123: the query runs and its rows become a set
Query(t) ==
    /\ task = "settings"
    /\ tpc[t] = "query"
    /\ \E rows \in ServerSets : tval' = [tval EXCEPT ![t] = rows]
    /\ queries' = queries + 1
    /\ tpc' = [tpc EXCEPT ![t] = "store"]
    /\ UNCHANGED <<task, pc, result, parseVars, inspectVars, ddl, cache,
                   accesses, writes, failed, overlapped, returned>>

\* lines 120-122: the cursor raises; the access ends with nothing stored
QueryFails(t) ==
    /\ task = "settings"
    /\ tpc[t] = "query"
    /\ queries' = queries + 1
    /\ failed' = failed + 1
    /\ tpc' = [tpc EXCEPT ![t] = "idle"]
    /\ UNCHANGED <<task, pc, result, parseVars, inspectVars, ddl, cache, tval,
                   accesses, writes, overlapped, returned>>

\* line 115: res = instance.__dict__[name] = func(instance); return res
Store(t) ==
    /\ task = "settings"
    /\ tpc[t] = "store"
    /\ cache' = [set |-> TRUE, value |-> tval[t]]
    /\ writes' = writes + 1
    /\ returned' = [returned EXCEPT ![t] = tval[t]]
    /\ tpc' = [tpc EXCEPT ![t] = "idle"]
    /\ UNCHANGED <<task, pc, result, parseVars, inspectVars, ddl, tval,
                   accesses, queries, failed, overlapped>>

SettingsInit ==
    /\ task = "settings"
    /\ pc = "ready"
    /\ result = NoResult
    /\ IdleParse /\ IdleInspect /\ IdleConstraints /\ IdleSettings

SettingsNext ==
    \E t \in Threads :
        Hit(t) \/ Miss(t) \/ Query(t) \/ QueryFails(t) \/ Store(t)

SpecSettings == SettingsInit /\ [][SettingsNext]_vars

\* C8 (as claimed): over any interleaving of accesses by one or more
\* threads the cache is written at most once, the query runs on the first
\* access only, and all accesses return the same set.
C8_WrittenAtMostOnce ==
    task = "settings" =>
        /\ writes <= 1
        /\ queries <= 1
        /\ \A t, u \in Threads :
              (returned[t] # {} /\ returned[u] # {}) => returned[t] = returned[u]

\* C8 (amended): nothing guards the cache.  An access that starts when the
\* cache is written neither queries nor writes and returns the stored set.
\* An access that starts before that runs the query, and writes the cache
\* with its own rows when the query returns: accesses that overlap before
\* the first write each query and each write, the later write replacing the
\* earlier; a query that raises writes nothing, so the next access queries
\* again.  With no two accesses overlapping the cache is written at most
\* once, by the first query that returns.
C8_StableOnceWritten ==
    [][task = "settings" =>
        /\ \A t \in Threads :
              accesses'[t] # accesses[t] =>
                 IF cache.set
                 THEN /\ queries' = queries
                      /\ writes' = writes
                      /\ cache' = cache
                      /\ returned'[t] = cache.value
                      /\ tpc'[t] = "idle"
                 ELSE /\ tpc'[t] = "query"
                      /\ cache' = cache
        /\ cache' # cache => writes' = writes + 1
        /\ writes' # writes =>
              \E t \in Threads :
                 /\ tpc[t] = "store"
                 /\ cache' = [set |-> TRUE, value |-> tval[t]]
                 /\ returned'[t] = tval[t]
        /\ writes' + failed' + Cardinality({t \in Threads : tpc'[t] = "store"})
              = queries'
        /\ ~overlapped' => (writes' <= 1 /\ queries' <= failed' + 1)
    ]_vars

C8_Witness ==
    /\ task = "settings"
    /\ overlapped
    /\ queries = 2 /\ writes = 2 /\ failed = 0
    /\ cache.set
    /\ returned["T1"] # returned["T2"]
    /\ accesses["T2"] = 2
    /\ returned["T2"] = cache.value
    /\ \A t \in Threads : tpc[t] = "idle"

====
